---- MODULE Spec2Model ----
\* Transactional push pipeline of the event store (internal/eventstore/v3/push.go):
\* Eventstore.Push, insertEvents with its savepoint retry loop, mapCommands and
\* errIsRetryable, run by one or two writers against a transactional backend
\* with savepoints and a unique key on (aggregate, sequence).
EXTENDS Integers, Sequences, FiniteSets, TLC

\* ---------------------------------------------------------------- bounds
MaxCmds == 2
MaxConcCmds == 3
MaxPrior == 1

\* ------------------------------------------------------ program constants
maxRetries == 5
argsPerCommand == 9

\* ------------------------------------------------------------ the inputs
Procs == {1, 2}
Aggs == {"A", "B"}

Variants ==
  { [creator |-> "u1", typ |-> "added", payload |-> "p1"],
    [creator |-> "u2", typ |-> "changed", payload |-> "p2"] }

Command(a, v) ==
  [aggregate |-> a, creator |-> v.creator, typ |-> v.typ, payload |-> v.payload]

Commands == { Command(a, v) : a \in Aggs, v \in Variants }

ConcCommands == { c \in Commands : c.payload = "p1" }

BatchesOf(S, n) == UNION { [1..k -> S] : k \in 1..n }

\* ------------------------------------------------------------ the errors
\* An error is its Unwrap chain, outermost layer first; nil is the empty chain.
NoErr == << >>

SqlErr(origin, code) == << [kind |-> origin, hasState |-> TRUE, code |-> code] >>

PlainErr(origin) == << [kind |-> origin, hasState |-> FALSE, code |-> ""] >>

ThrowInternal(parent, id) ==
  << [kind |-> id, hasState |-> FALSE, code |-> ""] >> \o parent

errCodeTop(err) == IF err = << >> THEN "" ELSE Head(err).code

\* errors.As walks the chain to the first error with a SQLState method.
RECURSIVE errCode(_)
errCode(err) ==
  IF err = << >> THEN ""
  ELSE IF Head(err).hasState THEN Head(err).code
  ELSE errCode(Tail(err))

errIsRetryableAnyState(err) == errCode(err) # ""

errIsRetryable(err) ==
  LET code == errCode(err) IN code = "CR000" \/ code = "40001"

\* The failures the backend can answer a statement with.
StmtFaults(origin) == { SqlErr(origin, "08006"), PlainErr(origin) }

InsertFaults ==
  { SqlErr("insert", "40001"), SqlErr("insert", "CR000"),
    SqlErr("insert", "23505"), PlainErr("insert") }

InFailedTx(origin) == SqlErr(origin, "25P02")

VARIABLES
  pc,         \* position of each writer inside Push
  commands,   \* the batch handed to Push
  sequences,  \* []*latestSequence, mutated in place by mapCommands
  baseline,   \* the sequences as latestSequences returned them
  events,     \* insertEvents' events
  stmt,       \* insertEvents' placeHolders and args
  i,          \* the retry loop's counter
  ierr,       \* insertEvents' err
  rows,       \* insertEvents' rows
  err,        \* Push's named result err
  ret,        \* Push's first result
  panicked,   \* a panic is unwinding through Push
  tx,         \* the backend's view of each writer's transaction
  store,      \* the committed rows of the events table
  uniques,    \* the writers whose uniqueness bookkeeping is committed
  clock,      \* the backend's clock
  faulty,     \* the environment injects failures that are not conflicts
  trace       \* the backend calls each writer made, with their outcomes

\* The error classifier applied on its own.
VARIABLES
  cerr,       \* the error handed to errIsRetryable
  cres        \* what errIsRetryable returned for it

\* InmemLogStorage (internal/logstore/mock/inmem.go) and its callers.
VARIABLES
  mux,        \* l.mux: the caller holding it, 0 when free
  emitted,    \* l.emitted
  bulks,      \* l.bulks
  now,        \* l.clock.Now()
  lpc,        \* position of each caller inside Emit or Cleanup
  lbulk,      \* the bulk of the caller's Emit
  lidx,       \* idx of the loop of Emit
  lkeep,      \* keep of the caller's Cleanup
  ncall,      \* the calls each caller made
  accepted,   \* the records of the non-empty Emit calls that returned
  cleaned     \* a Cleanup has run

pushVars == << pc, commands, sequences, baseline, events, stmt, i, ierr, rows, err, ret,
               panicked, tx, store, uniques, clock, faulty, trace >>

classVars == << cerr, cres >>

logVars == << mux, emitted, bulks, now, lpc, lbulk, lidx, lkeep, ncall, accepted, cleaned >>

vars == << pushVars, classVars, logVars >>

NilRows == [valid |-> FALSE, ts |-> << >>]

NoTx == [status |-> "none", pending |-> {}, savepoints |-> << >>, uniq |-> "none"]

Call(op, e, ts) == [op |-> op, err |-> e, rows |-> ts, args |-> << >>]

Log(p, op, e, ts) == [trace EXCEPT ![p] = Append(@, Call(op, e, ts))]

\* The insert is logged with the arguments it was executed with.
LogInsert(p, e, ts, args) ==
  [trace EXCEPT ![p] = Append(@, [Call("insert", e, ts) EXCEPT !.args = args])]

\* ------------------------------------------------------------ the backend
Key(r) == << r.aggregate, r.sequence >>

MaxSeq(rs, a) ==
  LET S == { r.sequence : r \in { x \in rs : x.aggregate = a } }
  IN IF S = {} THEN 0 ELSE CHOOSE m \in S : \A s \in S : s <= m

PriorRow(a, s) ==
  [writer |-> 0, idx |-> s, aggregate |-> a, creator |-> "u0", typ |-> "added",
   payload |-> "p0", sequence |-> s, createdAt |-> 0]

PriorRows(prior) ==
  { PriorRow(x[1], x[2]) :
      x \in { y \in Aggs \X (1..MaxPrior) : y[2] <= prior[y[1]] } }

\* A failed statement leaves the transaction aborted until ROLLBACK TO SAVEPOINT.
Abort(t) == [t EXCEPT !.status = "aborted"]

\* What a statement of writer p other than the insert may answer.
StmtOutcomes(p, origin) ==
  IF tx[p].status = "aborted" THEN { InFailedTx(origin) }
  ELSE { NoErr } \cup (IF faulty THEN StmtFaults(origin) ELSE {})

RowsOf(p, args, ts) ==
  { [writer |-> p, idx |-> k, aggregate |-> args[k].aggregate,
     creator |-> args[k].creator, typ |-> args[k].typ, payload |-> args[k].payload,
     sequence |-> args[k].sequence, createdAt |-> ts[k]] : k \in 1..Len(args) }

CommittedConflict(args) ==
  \E k \in 1..Len(args) : \E r \in store : Key(r) = Key(args[k])

PendingConflict(p, args) ==
  \E q \in Procs \ {p} :
    /\ tx[q].status \in {"active", "aborted"}
    /\ \E k \in 1..Len(args) : \E r \in tx[q].pending : Key(r) = Key(args[k])

SelfConflict(args) ==
  \E k, l \in 1..Len(args) : k # l /\ Key(args[k]) = Key(args[l])

InsertOutcomes(p, args) ==
  IF tx[p].status = "aborted" THEN { InFailedTx("insert") }
  ELSE IF CommittedConflict(args) \/ SelfConflict(args)
    THEN { SqlErr("insert", "23505"), SqlErr("insert", "40001") }
  ELSE IF PendingConflict(p, args) THEN { SqlErr("insert", "40001") }
  ELSE { NoErr } \cup (IF faulty THEN InsertFaults ELSE {})

\* --------------------------------------------------- the Sequence Oracle
\* latestSequences: one entry per distinct aggregate of the batch that the
\* lookup covers, in order of first appearance, with the highest committed
\* sequence of that aggregate.
RECURSIVE latestSequences(_, _, _, _)
latestSequences(cmds, k, cover, acc) ==
  IF k > Len(cmds) THEN acc
  ELSE LET a == cmds[k].aggregate
           seen == \E j \in 1..Len(acc) : acc[j].aggregate = a
       IN IF seen \/ a \notin cover
            THEN latestSequences(cmds, k + 1, cover, acc)
            ELSE latestSequences(cmds, k + 1, cover,
                   Append(acc, [aggregate |-> a, sequence |-> MaxSeq(store, a)]))

AggsOf(cmds) == { cmds[k].aggregate : k \in 1..Len(cmds) }

\* ------------------------------------------------- the Sequence Assigner
\* searchSequenceByCommand: the index of the entry of the command's
\* aggregate, 0 for nil.
searchSequenceByCommand(seqs, command) ==
  LET M == { j \in 1..Len(seqs) : seqs[j].aggregate = command.aggregate }
  IN IF M = {} THEN 0 ELSE CHOOSE j \in M : \A l \in M : j <= l

commandToEvent(sequence, command) ==
  [aggregate |-> command.aggregate, creator |-> command.creator,
   typ |-> command.typ, payload |-> command.payload,
   sequence |-> sequence.sequence, createdAt |-> 0]

PlaceHolder(k) == [n \in 1..argsPerCommand |-> (k - 1) * argsPerCommand + n]

ArgsOf(e) ==
  [aggregate |-> e.aggregate, creator |-> e.creator, typ |-> e.typ,
   payload |-> e.payload, sequence |-> e.sequence]

IncrementGap(seqs, j) == [seqs EXCEPT ![j].sequence = @ + 2]

IncrementAll(seqs, j) == [l \in 1..Len(seqs) |-> [seqs[l] EXCEPT !.sequence = @ + 1]]

\* sequence.sequence++ on the entry found
Increment(seqs, j) == [seqs EXCEPT ![j].sequence = @ + 1]

\* The loop of mapCommands from command k on; failAt is the command whose
\* commandToEvent fails (0: none).
RECURSIVE mapLoop(_, _, _, _, _, _, _)
mapLoop(k, cmds, seqs, evs, phs, args, failAt) ==
  IF k > Len(cmds)
    THEN [panic |-> FALSE, err |-> NoErr, events |-> evs, placeHolders |-> phs,
          args |-> args, sequences |-> seqs]
  ELSE LET j == searchSequenceByCommand(seqs, cmds[k])
       IN IF j = 0
            THEN [panic |-> TRUE, err |-> NoErr, events |-> << >>,
                  placeHolders |-> << >>, args |-> << >>, sequences |-> seqs]
          ELSE LET seqs2 == Increment(seqs, j)
                   ev == commandToEvent(seqs2[j], cmds[k])
               IN IF k = failAt
                    THEN [panic |-> FALSE, err |-> PlainErr("commandToEvent"),
                          events |-> << >>, placeHolders |-> << >>, args |-> << >>,
                          sequences |-> seqs2]
                  ELSE mapLoop(k + 1, cmds, seqs2, Append(evs, ev),
                               Append(phs, PlaceHolder(k)), Append(args, ArgsOf(ev)),
                               failAt)

mapCommands(cmds, seqs, failAt) ==
  mapLoop(1, cmds, seqs, << >>, << >>, << >>, failAt)

ScanRowsReversed(evs, ts) ==
  [k \in 1..Len(evs) |->
     IF k <= Len(ts) THEN [evs[k] EXCEPT !.createdAt = ts[Len(ts) + 1 - k]] ELSE evs[k]]

\* rows.Next / rows.Scan: the k-th returned timestamp goes to events[k].
ScanRows(evs, ts) ==
  [k \in 1..Len(evs) |->
     IF k <= Len(ts) THEN [evs[k] EXCEPT !.createdAt = ts[k]] ELSE evs[k]]

LoopContinuesOnceMore(n) == n < maxRetries + 1

\* The loop condition after the i++ of a continue.
LoopContinues(n) == n < maxRetries

DeferredCallAlwaysCommit(e) == "commit"

DeferredCallSwapped(e) == IF e # NoErr THEN "commit" ELSE "rollback"

\* The deferred function of Push: what it does with the transaction.
DeferredCall(e) == IF e # NoErr THEN "rollback" ELSE "commit"

\* ------------------------------------------------------------------ Push
\* tx, err := es.client.Begin()
Begin(p) ==
  /\ pc[p] = "begin"
  /\ \E e \in { NoErr } \cup (IF faulty THEN StmtFaults("begin") ELSE {}) :
       /\ trace' = Log(p, "begin", e, << >>)
       /\ IF e = NoErr
            THEN /\ tx' = [tx EXCEPT ![p] = [NoTx EXCEPT !.status = "active"]]
                 /\ pc' = [pc EXCEPT ![p] = "latestSequences"]
                 /\ UNCHANGED << err, ret >>
            ELSE /\ err' = [err EXCEPT ![p] = e]
                 /\ ret' = [ret EXCEPT ![p] = << >>]
                 /\ pc' = [pc EXCEPT ![p] = "done"]
                 /\ UNCHANGED tx
  /\ UNCHANGED << commands, sequences, baseline, events, stmt, i, ierr, rows,
                  panicked, store, uniques, clock, faulty >>
  /\ UNCHANGED << classVars, logVars >>

\* sequences, err := latestSequences(ctx, tx, commands)
LatestSequences(p) ==
  /\ pc[p] = "latestSequences"
  /\ \E e \in StmtOutcomes(p, "sequences") :
     \E cover \in (IF faulty THEN SUBSET AggsOf(commands[p]) ELSE { AggsOf(commands[p]) }) :
       /\ trace' = Log(p, "sequences", e, << >>)
       /\ IF e = NoErr
            THEN /\ sequences' = [sequences EXCEPT ![p] = latestSequences(commands[p], 1, cover, << >>)]
                 /\ baseline' = [baseline EXCEPT ![p] = latestSequences(commands[p], 1, cover, << >>)]
                 /\ pc' = [pc EXCEPT ![p] = "mapCommands"]
                 /\ UNCHANGED << err, ret, tx >>
            ELSE /\ err' = [err EXCEPT ![p] = e]
                 /\ ret' = [ret EXCEPT ![p] = << >>]
                 /\ tx' = [tx EXCEPT ![p] = Abort(@)]
                 /\ pc' = [pc EXCEPT ![p] = "deferred"]
                 /\ UNCHANGED << sequences, baseline >>
  /\ UNCHANGED << commands, events, stmt, i, ierr, rows, panicked, store, uniques,
                  clock, faulty >>
  /\ UNCHANGED << classVars, logVars >>

\* insertEvents, up to the loop: events, placeHolders, args, err := mapCommands(...)
MapCommands(p) ==
  /\ pc[p] = "mapCommands"
  /\ \E failAt \in (IF faulty THEN 0..Len(commands[p]) ELSE { 0 }) :
       LET r == mapCommands(commands[p], sequences[p], failAt)
       IN /\ sequences' = [sequences EXCEPT ![p] = r.sequences]
          /\ IF r.panic
               THEN /\ panicked' = [panicked EXCEPT ![p] = TRUE]
                    /\ pc' = [pc EXCEPT ![p] = "deferred"]
                    /\ UNCHANGED << events, stmt, i, ierr, err, ret >>
             ELSE IF r.err # NoErr
               THEN /\ ierr' = [ierr EXCEPT ![p] = r.err]
                    /\ err' = [err EXCEPT ![p] = r.err]
                    /\ ret' = [ret EXCEPT ![p] = << >>]
                    /\ pc' = [pc EXCEPT ![p] = "deferred"]
                    /\ UNCHANGED << events, stmt, i, panicked >>
             ELSE /\ events' = [events EXCEPT ![p] = r.events]
                  /\ stmt' = [stmt EXCEPT ![p] = [placeHolders |-> r.placeHolders, args |-> r.args]]
                  /\ i' = [i EXCEPT ![p] = 0]
                  /\ pc' = [pc EXCEPT ![p] = "savepoint"]
                  /\ UNCHANGED << ierr, err, ret, panicked >>
  /\ UNCHANGED << commands, baseline, rows, tx, store, uniques, clock, faulty, trace >>
  /\ UNCHANGED << classVars, logVars >>

\* _, err = tx.ExecContext(ctx, "SAVEPOINT insert")
Savepoint(p) ==
  /\ pc[p] = "savepoint"
  /\ \E e \in StmtOutcomes(p, "savepoint") :
       /\ trace' = Log(p, "savepoint", e, << >>)
       /\ IF e = NoErr
            THEN /\ tx' = [tx EXCEPT ![p].savepoints = Append(@, tx[p].pending)]
                 /\ ierr' = [ierr EXCEPT ![p] = NoErr]
                 /\ pc' = [pc EXCEPT ![p] = "query"]
                 /\ UNCHANGED << err, ret >>
            ELSE /\ tx' = [tx EXCEPT ![p] = Abort(@)]
                 /\ ierr' = [ierr EXCEPT ![p] = ThrowInternal(e, "V3-gd8jZ")]
                 /\ err' = [err EXCEPT ![p] = ThrowInternal(e, "V3-gd8jZ")]
                 /\ ret' = [ret EXCEPT ![p] = << >>]
                 /\ pc' = [pc EXCEPT ![p] = "deferred"]
  /\ UNCHANGED << commands, sequences, baseline, events, stmt, i, rows, panicked,
                  store, uniques, clock, faulty >>
  /\ UNCHANGED << classVars, logVars >>

QueryArgsShifted(p) ==
  [k \in 1..Len(stmt[p].args) |-> [stmt[p].args[k] EXCEPT !.sequence = @ + i[p]]]

\* The args of the statement of line 64: those mapCommands built before the loop.
QueryArgs(p) == stmt[p].args

\* rows, err = tx.QueryContext(ctx, fmt.Sprintf(pushStmt, ...), args...)
Query(p) ==
  /\ pc[p] = "query"
  /\ \E e \in InsertOutcomes(p, QueryArgs(p)) :
       LET n == Len(QueryArgs(p))
           ts == [k \in 1..n |-> clock + k]
       IN IF e = NoErr
            THEN /\ trace' = LogInsert(p, e, ts, QueryArgs(p))
                 /\ rows' = [rows EXCEPT ![p] = [valid |-> TRUE, ts |-> ts]]
                 /\ clock' = clock + n
                 /\ tx' = [tx EXCEPT ![p].pending = @ \cup RowsOf(p, QueryArgs(p), ts)]
                 /\ ierr' = [ierr EXCEPT ![p] = NoErr]
                 /\ pc' = [pc EXCEPT ![p] = "release"]
            ELSE /\ trace' = LogInsert(p, e, << >>, QueryArgs(p))
                 /\ rows' = [rows EXCEPT ![p] = NilRows]
                 /\ tx' = [tx EXCEPT ![p] = Abort(@)]
                 /\ ierr' = [ierr EXCEPT ![p] = e]
                 /\ pc' = [pc EXCEPT ![p] = IF errIsRetryable(e) THEN "rollbackTo" ELSE "scan"]
                 /\ UNCHANGED clock
  /\ UNCHANGED << commands, sequences, baseline, events, stmt, i, err, ret, panicked,
                  store, uniques, faulty >>
  /\ UNCHANGED << classVars, logVars >>

\* _, err = tx.ExecContext(ctx, "ROLLBACK TO SAVEPOINT insert"); continue
RollbackTo(p) ==
  /\ pc[p] = "rollbackTo"
  /\ \E e \in { NoErr } \cup (IF faulty THEN StmtFaults("rollbackTo") ELSE {}) :
       /\ trace' = Log(p, "rollbackTo", e, << >>)
       /\ tx' = IF e = NoErr
                  THEN [tx EXCEPT ![p].status = "active",
                                  ![p].pending = tx[p].savepoints[Len(tx[p].savepoints)]]
                  ELSE tx
       /\ ierr' = [ierr EXCEPT ![p] = e]
  /\ i' = [i EXCEPT ![p] = @ + 1]
  /\ pc' = [pc EXCEPT ![p] = IF LoopContinues(i[p] + 1) THEN "savepoint" ELSE "scan"]
  /\ UNCHANGED << commands, sequences, baseline, events, stmt, rows, err, ret,
                  panicked, store, uniques, clock, faulty >>
  /\ UNCHANGED << classVars, logVars >>

\* _, err = tx.ExecContext(ctx, "RELEASE SAVEPOINT insert"); break
Release(p) ==
  /\ pc[p] = "release"
  /\ \E e \in StmtOutcomes(p, "release") :
       /\ trace' = Log(p, "release", e, << >>)
       /\ tx' = IF e = NoErr
                  THEN [tx EXCEPT ![p].savepoints = SubSeq(@, 1, Len(@) - 1)]
                  ELSE [tx EXCEPT ![p] = Abort(@)]
       /\ ierr' = [ierr EXCEPT ![p] = e]
  /\ pc' = [pc EXCEPT ![p] = "scan"]
  /\ UNCHANGED << commands, sequences, baseline, events, stmt, i, rows, err, ret,
                  panicked, store, uniques, clock, faulty >>
  /\ UNCHANGED << classVars, logVars >>

ReturnsErrNever(e) == FALSE

\* if err != nil { return nil, err } after the loop
ReturnsErr(e) == e # NoErr

\* insertEvents after the loop: the err check, the scan of the rows, the return
Scan(p) ==
  /\ pc[p] = "scan"
  /\ IF ReturnsErr(ierr[p])
       THEN /\ err' = [err EXCEPT ![p] = ierr[p]]
            /\ ret' = [ret EXCEPT ![p] = << >>]
            /\ pc' = [pc EXCEPT ![p] = "deferred"]
            /\ UNCHANGED << events, panicked >>
     ELSE IF ~rows[p].valid
       THEN /\ panicked' = [panicked EXCEPT ![p] = TRUE]
            /\ pc' = [pc EXCEPT ![p] = "deferred"]
            /\ UNCHANGED << events, err, ret >>
     ELSE \E e \in { NoErr } \cup (IF faulty THEN { PlainErr("scan") } ELSE {}) :
            /\ trace' = Log(p, "scan", e, << >>)
            /\ IF e = NoErr
                 THEN /\ events' = [events EXCEPT ![p] = ScanRows(@, rows[p].ts)]
                      /\ pc' = [pc EXCEPT ![p] = "handleUnique"]
                      /\ UNCHANGED << err, ret, panicked >>
                 ELSE /\ err' = [err EXCEPT ![p] = e]
                      /\ ret' = [ret EXCEPT ![p] = << >>]
                      /\ pc' = [pc EXCEPT ![p] = "deferred"]
                      /\ UNCHANGED << events, panicked >>
  /\ IF ReturnsErr(ierr[p]) \/ ~rows[p].valid THEN UNCHANGED trace ELSE TRUE
  /\ UNCHANGED << commands, sequences, baseline, stmt, i, ierr, rows, tx, store,
                  uniques, clock, faulty >>
  /\ UNCHANGED << classVars, logVars >>

\* if err = handleUniqueConstraints(ctx, tx, commands); err != nil {...}; return events, nil
HandleUnique(p) ==
  /\ pc[p] = "handleUnique"
  /\ \E e \in StmtOutcomes(p, "unique") \cup { SqlErr("unique", "23505") } :
     \E st \in { "active", "aborted" } :
       /\ trace' = Log(p, "unique", e, << >>)
       /\ IF e = NoErr
            THEN /\ tx' = [tx EXCEPT ![p].uniq = "all"]
                 /\ ret' = [ret EXCEPT ![p] = events[p]]
                 /\ err' = [err EXCEPT ![p] = NoErr]
            ELSE /\ tx' = [tx EXCEPT ![p].uniq = "partial", ![p].status = st]
                 /\ ret' = [ret EXCEPT ![p] = << >>]
                 /\ err' = [err EXCEPT ![p] = e]
  /\ pc' = [pc EXCEPT ![p] = "deferred"]
  /\ UNCHANGED << commands, sequences, baseline, events, stmt, i, ierr, rows,
                  panicked, store, uniques, clock, faulty >>
  /\ UNCHANGED << classVars, logVars >>

AfterRollbackMasked(e, txErr) == IF txErr # NoErr THEN txErr ELSE e

\* Push's err after tx.Rollback() returned txErr: txErr is only logged.
AfterRollback(e, txErr) == e

\* The deferred function: rollback when err is set, else err = tx.Commit()
Deferred(p) ==
  /\ pc[p] = "deferred"
  /\ IF DeferredCall(err[p]) = "rollback"
       THEN \E e \in { NoErr } \cup (IF faulty THEN StmtFaults("rollback") ELSE {}) :
              /\ trace' = Log(p, "rollback", e, << >>)
              /\ tx' = [tx EXCEPT ![p].status = "rolledback", ![p].pending = {},
                                  ![p].savepoints = << >>, ![p].uniq = "none"]
              /\ err' = [err EXCEPT ![p] = AfterRollback(@, e)]
              /\ UNCHANGED << store, uniques >>
       ELSE \E e \in StmtOutcomes(p, "commit") :
              /\ trace' = Log(p, "commit", e, << >>)
              /\ err' = [err EXCEPT ![p] = e]
              /\ IF e = NoErr
                   THEN /\ store' = store \cup tx[p].pending
                        /\ uniques' = uniques \cup
                             (IF tx[p].uniq = "none" THEN {}
                              ELSE { [writer |-> p, uniq |-> tx[p].uniq] })
                        /\ tx' = [tx EXCEPT ![p].status = "committed", ![p].pending = {},
                                            ![p].savepoints = << >>]
                   ELSE /\ tx' = [tx EXCEPT ![p].status = "rolledback", ![p].pending = {},
                                            ![p].savepoints = << >>, ![p].uniq = "none"]
                        /\ UNCHANGED << store, uniques >>
  /\ pc' = [pc EXCEPT ![p] = "done"]
  /\ UNCHANGED << commands, sequences, baseline, events, stmt, i, ierr, rows, ret,
                  panicked, clock, faulty >>
  /\ UNCHANGED << classVars, logVars >>

\* ------------------------------------------------- the Error Classifier
MaxWrap == 2

WrapKinds == { "V3-gd8jZ", "fmt" }

\* The errors a driver returns: with a SQLSTATE, or without one.
ErrLeaves ==
  { SqlErr("insert", code) :
      code \in { "40001", "CR000", "23505", "25P02", "08006", "cr000", "4000", "" } }
  \cup { PlainErr("insert") }

RECURSIVE WrapAll(_, _)
WrapAll(w, e) ==
  IF w = << >> THEN e ELSE ThrowInternal(WrapAll(Tail(w), e), Head(w))

\* nil, a driver error, or a driver error wrapped up to MaxWrap times.
ErrInputs ==
  { NoErr } \cup
  { WrapAll(w, e) : w \in { << >> } \cup BatchesOf(WrapKinds, MaxWrap), e \in ErrLeaves }

\* errIsRetryable(err)
Classify ==
  /\ cres = "unset"
  /\ cres' = IF errIsRetryable(cerr) THEN "true" ELSE "false"
  /\ UNCHANGED << cerr, pushVars, logVars >>

\* ------------------------------------------------------- InmemLogStorage
MaxBulk == 2
MaxCalls == 2
MaxTime == 1

LogProcs == { 1, 2 }

\* The k-th record of the n-th call of caller c, stamped t.
Record(c, n, k, t) == [caller |-> c, call |-> n, idx |-> k, ts |-> t]

Bulk(c, n, size, t) == [k \in 1..size |-> Record(c, n, k, t)]

AppendRecordTwice(em, r) == Append(Append(em, r), r)

\* l.emitted = append(l.emitted, bulk[idx])
AppendRecord(em, r) == Append(em, r)

\* l.bulks = append(l.bulks, len(bulk))
AppendBulk(bs, bulk) == Append(bs, Len(bulk))

\* from := l.clock.Now().Add(-(keep + 1)); r.ts.After(from)
Kept(r, keep) == r.ts > now - (keep + 1)

\* Emit: the check of the empty bulk; a non-empty bulk goes on to the lock
EmitCall(c) ==
  /\ lpc[c] = "idle"
  /\ ncall[c] < MaxCalls
  /\ \E size \in 0..MaxBulk :
       LET bulk == Bulk(c, ncall[c] + 1, size, now)
       IN IF Len(bulk) = 0
            THEN UNCHANGED << lpc, lbulk >>
            ELSE /\ lpc' = [lpc EXCEPT ![c] = "emitLock"]
                 /\ lbulk' = [lbulk EXCEPT ![c] = bulk]
  /\ ncall' = [ncall EXCEPT ![c] = @ + 1]
  /\ UNCHANGED << mux, emitted, bulks, now, lidx, lkeep, accepted, cleaned >>
  /\ UNCHANGED << pushVars, classVars >>

\* l.mux.Lock() of Emit
EmitLock(c) ==
  /\ lpc[c] = "emitLock"
  /\ mux = 0
  /\ mux' = c
  /\ lidx' = [lidx EXCEPT ![c] = 1]
  /\ lpc' = [lpc EXCEPT ![c] = "append"]
  /\ UNCHANGED << emitted, bulks, now, lbulk, lkeep, ncall, accepted, cleaned >>
  /\ UNCHANGED << pushVars, classVars >>

\* one round of the loop of Emit
EmitAppend(c) ==
  /\ lpc[c] = "append"
  /\ lidx[c] <= Len(lbulk[c])
  /\ emitted' = AppendRecord(emitted, lbulk[c][lidx[c]])
  /\ lidx' = [lidx EXCEPT ![c] = @ + 1]
  /\ UNCHANGED << mux, bulks, now, lpc, lbulk, lkeep, ncall, accepted, cleaned >>
  /\ UNCHANGED << pushVars, classVars >>

\* l.bulks = append(...); return nil, with the deferred Unlock
EmitReturn(c) ==
  /\ lpc[c] = "append"
  /\ lidx[c] > Len(lbulk[c])
  /\ bulks' = AppendBulk(bulks, lbulk[c])
  /\ mux' = 0
  /\ lpc' = [lpc EXCEPT ![c] = "idle"]
  /\ accepted' = accepted \cup { lbulk[c][k] : k \in 1..Len(lbulk[c]) }
  /\ UNCHANGED << emitted, now, lbulk, lidx, lkeep, ncall, cleaned >>
  /\ UNCHANGED << pushVars, classVars >>

\* Cleanup is called with keep
CleanupCall(c) ==
  /\ lpc[c] = "idle"
  /\ ncall[c] < MaxCalls
  /\ \E keep \in 0..MaxTime : lkeep' = [lkeep EXCEPT ![c] = keep]
  /\ lpc' = [lpc EXCEPT ![c] = "cleanupLock"]
  /\ ncall' = [ncall EXCEPT ![c] = @ + 1]
  /\ UNCHANGED << mux, emitted, bulks, now, lbulk, lidx, accepted, cleaned >>
  /\ UNCHANGED << pushVars, classVars >>

\* l.mux.Lock() of Cleanup
CleanupLock(c) ==
  /\ lpc[c] = "cleanupLock"
  /\ mux = 0
  /\ mux' = c
  /\ lpc' = [lpc EXCEPT ![c] = "cleanup"]
  /\ UNCHANGED << emitted, bulks, now, lbulk, lidx, lkeep, ncall, accepted, cleaned >>
  /\ UNCHANGED << pushVars, classVars >>

\* the body of Cleanup, with the deferred Unlock
CleanupRun(c) ==
  /\ lpc[c] = "cleanup"
  /\ emitted' = SelectSeq(emitted, LAMBDA r : Kept(r, lkeep[c]))
  /\ mux' = 0
  /\ lpc' = [lpc EXCEPT ![c] = "idle"]
  /\ cleaned' = TRUE
  /\ UNCHANGED << bulks, now, lbulk, lidx, lkeep, ncall, accepted >>
  /\ UNCHANGED << pushVars, classVars >>

\* the mock clock is moved
Tick ==
  /\ now < MaxTime
  /\ now' = now + 1
  /\ UNCHANGED << mux, emitted, bulks, lpc, lbulk, lidx, lkeep, ncall, accepted, cleaned >>
  /\ UNCHANGED << pushVars, classVars >>

\* Len() and Bulks(), which return once they hold the mutex
LogLen == Len(emitted)

Bulks == bulks

\* ------------------------------------------------------ specifications
InitLocals ==
  /\ sequences = [p \in Procs |-> << >>]
  /\ baseline = [p \in Procs |-> << >>]
  /\ events = [p \in Procs |-> << >>]
  /\ stmt = [p \in Procs |-> [placeHolders |-> << >>, args |-> << >>]]
  /\ i = [p \in Procs |-> 0]
  /\ ierr = [p \in Procs |-> NoErr]
  /\ rows = [p \in Procs |-> NilRows]
  /\ err = [p \in Procs |-> NoErr]
  /\ ret = [p \in Procs |-> << >>]
  /\ panicked = [p \in Procs |-> FALSE]
  /\ tx = [p \in Procs |-> NoTx]
  /\ uniques = {}
  /\ clock = 0
  /\ trace = [p \in Procs |-> << >>]

\* No Push is running.
IdlePush ==
  /\ InitLocals
  /\ faulty = FALSE
  /\ pc = [p \in Procs |-> "off"]
  /\ commands = [p \in Procs |-> << >>]
  /\ store = {}

IdleClass ==
  /\ cerr = NoErr
  /\ cres = "false"

\* NewInMemoryStorage, no caller yet
InitLog ==
  /\ mux = 0
  /\ emitted = << >>
  /\ bulks = << >>
  /\ now = 0
  /\ lpc = [c \in LogProcs |-> "idle"]
  /\ lbulk = [c \in LogProcs |-> << >>]
  /\ lidx = [c \in LogProcs |-> 0]
  /\ lkeep = [c \in LogProcs |-> 0]
  /\ ncall = [c \in LogProcs |-> 0]
  /\ accepted = {}
  /\ cleaned = FALSE

\* One writer, a backend that may fail any statement.
Init ==
  /\ InitLocals
  /\ IdleClass
  /\ InitLog
  /\ faulty = TRUE
  /\ pc = [p \in Procs |-> IF p = 1 THEN "begin" ELSE "off"]
  /\ \E b \in BatchesOf(Commands, MaxCmds) :
       commands = [p \in Procs |-> IF p = 1 THEN b ELSE << >>]
  /\ \E prior \in [Aggs -> 0..MaxPrior] : store = PriorRows(prior)

\* Two concurrent writers, a backend that fails statements on conflicts only.
InitConc ==
  /\ InitLocals
  /\ IdleClass
  /\ InitLog
  /\ faulty = FALSE
  /\ pc = [p \in Procs |-> "begin"]
  /\ commands \in [Procs -> BatchesOf(ConcCommands, MaxConcCmds)]
  /\ \E n \in 0..MaxPrior : store = PriorRows([a \in Aggs |-> n])

Next ==
  \E p \in Procs :
    \/ Begin(p)
    \/ LatestSequences(p)
    \/ MapCommands(p)
    \/ Savepoint(p)
    \/ Query(p)
    \/ RollbackTo(p)
    \/ Release(p)
    \/ Scan(p)
    \/ HandleUnique(p)
    \/ Deferred(p)

Spec == Init /\ [][Next]_vars

SpecConc == InitConc /\ [][Next]_vars

\* errIsRetryable on every error of ErrInputs.
InitClassify ==
  /\ IdlePush
  /\ InitLog
  /\ cerr \in ErrInputs
  /\ cres = "unset"

NextClassify == Classify

SpecClassify == InitClassify /\ [][NextClassify]_vars

\* Concurrent callers of the log storage.
InitLogStorage ==
  /\ IdlePush
  /\ IdleClass
  /\ InitLog

NextLog ==
  \/ \E c \in LogProcs :
       \/ EmitCall(c)
       \/ EmitLock(c)
       \/ EmitAppend(c)
       \/ EmitReturn(c)
       \/ CleanupCall(c)
       \/ CleanupLock(c)
       \/ CleanupRun(c)
  \/ Tick

SpecLog == InitLogStorage /\ [][NextLog]_vars

TypeOK ==
  /\ pc \in [Procs -> {"off", "begin", "latestSequences", "mapCommands", "savepoint",
                       "query", "rollbackTo", "release", "scan", "handleUnique",
                       "deferred", "done"}]
  /\ \A p \in Procs : i[p] \in 0..maxRetries

\* ------------------------------------------------------------ vocabulary
Done(p) == pc[p] = "done"

Mapped(p) == events[p] # << >>

Calls(p, op) == SelectSeq(trace[p], LAMBDA c : c.op = op)

Called(p, op) == \E k \in 1..Len(trace[p]) : trace[p][k].op = op

Succeeded(p, op) ==
  \E k \in 1..Len(trace[p]) : trace[p][k].op = op /\ trace[p][k].err = NoErr

Failed(p, op) ==
  \E k \in 1..Len(trace[p]) : trace[p][k].op = op /\ trace[p][k].err # NoErr

SavepointOps == { "savepoint", "rollbackTo", "release" }

MyRows(p) == { r \in store : r.writer = p }

AllPersisted(p) ==
  /\ Cardinality(MyRows(p)) = Len(commands[p])
  /\ \A k \in 1..Len(commands[p]) :
       \E r \in MyRows(p) :
         /\ r.idx = k
         /\ r.aggregate = commands[p][k].aggregate
         /\ r.creator = commands[p][k].creator
         /\ r.typ = commands[p][k].typ
         /\ r.payload = commands[p][k].payload
  /\ \A u \in uniques : u.writer = p => u.uniq = "all"
  /\ \E u \in uniques : u.writer = p

NonePersisted(p) ==
  /\ MyRows(p) = {}
  /\ \A u \in uniques : u.writer # p

\* The baseline latestSequences returned for aggregate a (-1: no entry).
Base(p, a) ==
  LET S == { e.sequence : e \in { baseline[p][j] : j \in { l \in 1..Len(baseline[p]) :
                                                    baseline[p][l].aggregate = a } } }
  IN IF S = {} THEN 0 - 1 ELSE CHOOSE b \in S : TRUE

\* How many of the first k commands of writer p reference aggregate a.
Rank(p, k, a) == Cardinality({ j \in 1..k : commands[p][j].aggregate = a })

\* ---------------------------------------------------------------- claims

\* C1: Push is all-or-nothing. At every moment the committed store holds, of
\* each writer's batch, either one row per command together with the complete
\* uniqueness bookkeeping or nothing at all; and when handleUniqueConstraints
\* failed after a successful insert, Push has rolled back, never committed,
\* and no row of the batch is in the store.
C1_AllOrNothing ==
  \A p \in Procs :
    /\ AllPersisted(p) \/ NonePersisted(p)
    /\ (Done(p) /\ Succeeded(p, "insert") /\ Failed(p, "unique"))
         => /\ Called(p, "rollback")
            /\ ~Called(p, "commit")
            /\ NonePersisted(p)

C1_Witness ==
  /\ Done(1) /\ Succeeded(1, "insert") /\ Failed(1, "unique")
  /\ Called(1, "rollback") /\ MyRows(1) = {}

\* C2: contiguity. The k-th command of a batch gets the sequence number
\* baseline(A) + (number of commands for A among the first k), so A's events
\* carry baseline+1, ..., baseline+n in input order without gaps.
C2_Contiguity ==
  \A p \in Procs :
    Mapped(p) =>
      /\ Len(events[p]) = Len(commands[p])
      /\ \A k \in 1..Len(events[p]) :
           LET a == commands[p][k].aggregate
           IN /\ events[p][k].aggregate = a
              /\ events[p][k].sequence = Base(p, a) + Rank(p, k, a)

C2_Witness ==
  /\ Mapped(1) /\ Len(commands[1]) = 3
  /\ commands[1][1].aggregate = "A" /\ commands[1][2].aggregate = "B"
  /\ commands[1][3].aggregate = "A"
  /\ Base(1, "A") = 1
  /\ events[1][1].sequence = 2 /\ events[1][3].sequence = 3

\* The codes the claims call retryable.
RetryableCode(e) == errCode(e) \in { "40001", "CR000" }

\* The insert executions of writer p, in order.
Inserts(p) == Calls(p, "insert")

AllRetryable(p) ==
  \A k \in 1..Len(Inserts(p)) :
    Inserts(p)[k].err # NoErr /\ RetryableCode(Inserts(p)[k].err)

SavepointsSucceeded(p) ==
  \A k \in 1..Len(trace[p]) :
    trace[p][k].op \in SavepointOps => trace[p][k].err = NoErr

\* C3: retry bound. When the insert failed with a retryable code on all 5
\* attempts and every savepoint statement succeeded, Push returns the last
\* insert error, has rolled the transaction back without committing, and no
\* row of the batch is persisted.
C3_RetryBound ==
  \A p \in Procs :
    (Done(p) /\ Len(Inserts(p)) = maxRetries /\ AllRetryable(p) /\ SavepointsSucceeded(p))
      => /\ ~panicked[p]
         /\ err[p] = Inserts(p)[maxRetries].err
         /\ Called(p, "rollback")
         /\ ~Called(p, "commit")
         /\ MyRows(p) = {}

\* Every call of writer p but its first insert succeeded.
OnlyFirstInsertFailed(p) ==
  /\ Len(Inserts(p)) = 2
  /\ Inserts(p)[1].err # NoErr /\ RetryableCode(Inserts(p)[1].err)
  /\ Inserts(p)[2].err = NoErr
  /\ \A k \in 1..Len(trace[p]) :
       trace[p][k].err # NoErr => trace[p][k] = Inserts(p)[1]

\* C4: retry correctness. When the insert fails with a retryable code on
\* attempt 1 and succeeds on attempt 2 (nothing else failing), only the
\* savepoint was rolled back, never the transaction; Push commits, exactly one
\* row per command is persisted, and the rows and the returned events carry
\* the timestamps attempt 2 returned.
C4_RetryCorrectness ==
  \A p \in Procs :
    (Done(p) /\ OnlyFirstInsertFailed(p))
      => /\ ~panicked[p] /\ err[p] = NoErr
         /\ Len(Calls(p, "rollbackTo")) = 1
         /\ ~Called(p, "rollback")
         /\ Succeeded(p, "commit")
         /\ AllPersisted(p)
         /\ Len(ret[p]) = Len(commands[p])
         /\ \A k \in 1..Len(commands[p]) :
              /\ ret[p][k].createdAt = Inserts(p)[2].rows[k]
              /\ \A r \in MyRows(p) : r.idx = k => r.createdAt = Inserts(p)[2].rows[k]

C4_Witness ==
  /\ Done(1) /\ OnlyFirstInsertFailed(1)
  /\ Len(commands[1]) = 2 /\ Cardinality(MyRows(1)) = 2
  /\ Succeeded(1, "commit")

\* Another writer committed events of one of p's aggregates beyond the
\* baseline p fetched.
Stale(p) ==
  \E r \in store :
    /\ r.writer # p /\ r.writer # 0
    /\ r.aggregate \in AggsOf(commands[p])
    /\ r.sequence > Base(p, r.aggregate)

UniqueKeys == \A r1, r2 \in store : Key(r1) = Key(r2) => r1 = r2

StaleOutcome(p) ==
  \/ ~panicked[p] /\ err[p] = NoErr /\ AllPersisted(p)
  \/ ~panicked[p] /\ err[p] # NoErr /\ MyRows(p) = {}

\* C5: concurrent writers on the same aggregate. No two committed events
\* share (aggregate, sequence), so the writers' ranges do not overlap, and a
\* writer whose baseline became stale either succeeds or returns an error
\* with none of its events committed.
C5_ConcurrentWriters ==
  /\ UniqueKeys
  /\ \A p \in Procs : (Done(p) /\ Stale(p)) => StaleOutcome(p)

\* latestSequences succeeded without an entry for one of the batch's aggregates.
MissingBaseline(p) ==
  /\ Succeeded(p, "sequences")
  /\ \E k \in 1..Len(commands[p]) : Base(p, commands[p][k].aggregate) < 0

\* C6: missing baseline. When a command's aggregate has no entry in the
\* fetched sequences, the insert statement is never executed, no savepoint is
\* taken, the transaction is not committed and no row is persisted.
C6_MissingBaseline ==
  \A p \in Procs :
    (Done(p) /\ MissingBaseline(p))
      => /\ ~Called(p, "savepoint")
         /\ ~Called(p, "insert")
         /\ ~Called(p, "commit")
         /\ MyRows(p) = {}

NonRetryableAt(p, k) ==
  /\ trace[p][k].op = "insert"
  /\ trace[p][k].err # NoErr
  /\ ~RetryableCode(trace[p][k].err)

\* C7 as stated: when the insert fails with a non-retryable error, the insert
\* statement was executed exactly once in that Push, no ROLLBACK TO SAVEPOINT
\* was issued, Push returns that error and rolls the transaction back.
C7_Original ==
  \A p \in Procs :
    \A k \in 1..Len(trace[p]) :
      (Done(p) /\ NonRetryableAt(p, k))
        => /\ Len(Inserts(p)) = 1
           /\ ~Called(p, "rollbackTo")
           /\ ~panicked[p] /\ err[p] = trace[p][k].err
           /\ Called(p, "rollback")

\* C7 amended: a non-retryable failure of the insert ends the loop. No
\* statement but the transaction's rollback follows it (no ROLLBACK TO
\* SAVEPOINT, no further insert), Push returns that same error without events
\* and rolls the transaction back; when the failure is on the first attempt
\* the insert statement was executed exactly once and no ROLLBACK TO SAVEPOINT
\* was issued at all.
C7_NonRetryableImmediacy ==
  \A p \in Procs :
    \A k \in 1..Len(trace[p]) :
      NonRetryableAt(p, k)
        => /\ \A j \in (k + 1)..Len(trace[p]) : trace[p][j].op = "rollback"
           /\ Done(p) => /\ ~panicked[p] /\ err[p] = trace[p][k].err
                         /\ ret[p] = << >>
                         /\ Called(p, "rollback") /\ ~Called(p, "commit")
                         /\ MyRows(p) = {}
           /\ (\A j \in 1..(k - 1) : trace[p][j].op # "insert")
                => Len(Inserts(p)) = 1 /\ ~Called(p, "rollbackTo")

C7_Witness ==
  /\ Done(1) /\ Len(Inserts(1)) = 1
  /\ errCode(Inserts(1)[1].err) = "23505"
  /\ err[1] = Inserts(1)[1].err
  /\ Called(1, "rollback")

\* C8: on success the returned events are the commands, one to one and in
\* order: event k carries command k's aggregate, creator, type and payload,
\* the sequence number assigned to and inserted for command k, and the k-th
\* timestamp the insert returned.
C8_OrderedResult ==
  \A p \in Procs :
    (Done(p) /\ ~panicked[p] /\ err[p] = NoErr)
      => /\ Len(ret[p]) = Len(commands[p])
         /\ \A k \in 1..Len(commands[p]) :
              /\ ret[p][k].aggregate = commands[p][k].aggregate
              /\ ret[p][k].creator = commands[p][k].creator
              /\ ret[p][k].typ = commands[p][k].typ
              /\ ret[p][k].payload = commands[p][k].payload
              /\ ret[p][k].sequence = stmt[p].args[k].sequence
              /\ ret[p][k].sequence =
                   Base(p, commands[p][k].aggregate) + Rank(p, k, commands[p][k].aggregate)
              /\ ret[p][k].createdAt = Inserts(p)[Len(Inserts(p))].rows[k]

C8_Witness ==
  /\ Done(1) /\ ~panicked[1] /\ err[1] = NoErr
  /\ Len(ret[1]) = 2
  /\ ret[1][1].aggregate = "B" /\ ret[1][2].aggregate = "A"
  /\ ret[1][1].payload # ret[1][2].payload
  /\ ret[1][1].createdAt < ret[1][2].createdAt

\* C9: Push returns events or an error, never both: a non-nil error comes
\* with no events, and a nil error means the transaction was committed.
C9_EventsOrError ==
  \A p \in Procs :
    (Done(p) /\ ~panicked[p])
      => /\ err[p] # NoErr => ret[p] = << >>
         /\ err[p] = NoErr => Succeeded(p, "commit")

\* The commands of a batch for aggregate a, and the sequence numbers of its
\* events for a, both in input order.
CommandsFor(cmds, a) == SelectSeq(cmds, LAMBDA c : c.aggregate = a)

SequencesFor(evs, a) ==
  LET es == SelectSeq(evs, LAMBDA e : e.aggregate = a)
  IN [k \in 1..Len(es) |-> es[k].sequence]

\* C10: interleaving independence. Two batches with the same commands for an
\* aggregate in the same order, and the same baseline for it, get the same
\* sequence numbers for that aggregate, whatever commands for the other
\* aggregate are interspersed.
C10_InterleavingIndependence ==
  \A p, q \in Procs :
    \A a \in Aggs :
      (/\ Mapped(p) /\ Mapped(q)
       /\ CommandsFor(commands[p], a) = CommandsFor(commands[q], a)
       /\ Base(p, a) = Base(q, a))
        => SequencesFor(events[p], a) = SequencesFor(events[q], a)

C10_Witness ==
  /\ Mapped(1) /\ Mapped(2)
  /\ Len(CommandsFor(commands[1], "B")) = 1
  /\ CommandsFor(commands[1], "B") = CommandsFor(commands[2], "B")
  /\ Len(CommandsFor(commands[1], "A")) = 2 /\ commands[1][3].aggregate = "B"
  /\ Len(CommandsFor(commands[2], "A")) = 0
  /\ Base(1, "B") = 1 /\ Base(2, "B") = 1
  /\ SequencesFor(events[1], "B") = << 2 >>
  /\ SequencesFor(events[2], "B") = << 2 >>

\* C11: a Push that began a transaction and ended without a successful
\* commit has attempted a rollback of that transaction.
C11_RollbackAttempted ==
  \A p \in Procs :
    (Done(p) /\ Succeeded(p, "begin") /\ ~Succeeded(p, "commit"))
      => Called(p, "rollback")

\* insertEvents returned its events without error.
InsertEventsSucceeded(p) == Succeeded(p, "scan")

\* C12: the loop's savepoint never outlives the insert step. Once
\* insertEvents has returned successfully no savepoint is open in the
\* transaction while handleUniqueConstraints and the commit run, and at no
\* time is more than one savepoint of the loop open.
C12_SavepointNested ==
  \A p \in Procs :
    /\ (InsertEventsSucceeded(p) /\ pc[p] \in { "handleUnique", "deferred" })
         => tx[p].savepoints = << >>
    /\ Len(tx[p].savepoints) <= 1

LoopLabels == { "savepoint", "query", "rollbackTo", "release" }

\* C13: the retry loop is bounded. The insert statement is executed at most
\* maxRetries times per Push, once per value of the loop counter, and the
\* loop is left when the counter reaches maxRetries.
C13_RetryBounded ==
  \A p \in Procs :
    /\ Len(Inserts(p)) <= maxRetries
    /\ i[p] <= maxRetries
    /\ pc[p] \in LoopLabels => i[p] < maxRetries
    /\ pc[p] \in LoopLabels => Len(Inserts(p)) \in { i[p], i[p] + 1 }

C13_Witness ==
  /\ Len(Inserts(1)) = maxRetries
  /\ i[1] = maxRetries
  /\ pc[1] = "scan"

\* The phase a backend call belongs to.
Phase(op) ==
  CASE op = "begin" -> 1
    [] op = "sequences" -> 2
    [] op \in { "savepoint", "insert", "rollbackTo", "release", "scan" } -> 3
    [] op = "unique" -> 4
    [] OTHER -> 5

InPhase(p, n) == \E k \in 1..Len(trace[p]) : Phase(trace[p][k].op) = n

\* C14: phase ordering and short-circuit. The calls of a Push come in the
\* order begin, sequence lookup, insert with its savepoints, uniqueness
\* handling, commit or rollback; a failed phase keeps every later phase from
\* being invoked; commit is invoked only after the three phases succeeded.
C14_PhaseOrder ==
  \A p \in Procs :
    /\ \A k, l \in 1..Len(trace[p]) :
         k < l => Phase(trace[p][k].op) <= Phase(trace[p][l].op)
    /\ Failed(p, "begin") => Len(trace[p]) = 1
    /\ Failed(p, "sequences") => ~InPhase(p, 3) /\ ~InPhase(p, 4)
    /\ InPhase(p, 4) => InsertEventsSucceeded(p)
    /\ Called(p, "commit")
         => /\ Succeeded(p, "sequences")
            /\ InsertEventsSucceeded(p)
            /\ Succeeded(p, "unique")

\* How many commands of writer p reference the aggregate of its sequence entry j.
Assigned(p, j) == Rank(p, Len(commands[p]), sequences[p][j].aggregate)

\* C15: blind retry. The baselines are fetched once and the sequence numbers
\* are assigned once, before the loop: every execution of the insert carries
\* the arguments mapCommands built, with command k at baseline + rank, and
\* so do the persisted rows and the returned events, however many attempts
\* failed.
C15_BlindRetry ==
  \A p \in Procs :
    /\ Len(Calls(p, "sequences")) <= 1
    /\ Mapped(p) =>
         \A j \in 1..Len(sequences[p]) :
           sequences[p][j].sequence = baseline[p][j].sequence + Assigned(p, j)
    /\ \A n \in 1..Len(Inserts(p)) :
         /\ Inserts(p)[n].args = stmt[p].args
         /\ \A k \in 1..Len(commands[p]) :
              Inserts(p)[n].args[k].sequence =
                Base(p, commands[p][k].aggregate) + Rank(p, k, commands[p][k].aggregate)
    /\ \A r \in MyRows(p) :
         r.sequence = Base(p, r.aggregate) + Rank(p, r.idx, r.aggregate)
    /\ \A k \in 1..Len(ret[p]) :
         ret[p][k].sequence =
           Base(p, commands[p][k].aggregate) + Rank(p, k, commands[p][k].aggregate)

C15_Witness ==
  /\ Done(1) /\ Len(Inserts(1)) = 3
  /\ Inserts(1)[1].err # NoErr /\ Inserts(1)[2].err # NoErr /\ Inserts(1)[3].err = NoErr
  /\ Inserts(1)[1].args = Inserts(1)[3].args
  /\ Len(commands[1]) = 2 /\ Cardinality(MyRows(1)) = 2
  /\ Len(ret[1]) = 2

\* The error the failing phase of writer p handed to Push: that of its last
\* failed call before the rollback (insertEvents wraps a failed SAVEPOINT),
\* or commandToEvent's when no call failed.
PhaseError(p) ==
  LET F == { k \in 1..Len(trace[p]) :
               trace[p][k].err # NoErr /\ trace[p][k].op # "rollback" }
  IN IF F = {} THEN PlainErr("commandToEvent")
     ELSE LET k == CHOOSE m \in F : \A n \in F : n <= m
          IN IF trace[p][k].op = "savepoint"
               THEN ThrowInternal(trace[p][k].err, "V3-gd8jZ")
               ELSE trace[p][k].err

\* C17: a failing rollback does not mask the original error. When a phase
\* failed and tx.Rollback failed too, Push returns the phase's error.
C17_RollbackErrorNotMasked ==
  \A p \in Procs :
    (Done(p) /\ Failed(p, "rollback"))
      => /\ ~panicked[p]
         /\ err[p] # NoErr
         /\ err[p] = PhaseError(p)
         /\ ret[p] = << >>

C17_Witness ==
  /\ Done(1) /\ Failed(1, "rollback") /\ Failed(1, "unique")
  /\ err[1] = SqlErr("unique", "23505")

\* C18: insertEvents returns its events with a nil error only when its last
\* execution of the insert succeeded and the RELEASE SAVEPOINT after it
\* succeeded.
C18_SuccessNeedsInsert ==
  \A p \in Procs :
    (pc[p] = "handleUnique" \/ Called(p, "unique"))
      => /\ Len(Inserts(p)) >= 1
         /\ Inserts(p)[Len(Inserts(p))].err = NoErr
         /\ Len(Calls(p, "release")) = 1
         /\ Calls(p, "release")[1].err = NoErr
         /\ rows[p].valid
         /\ Len(events[p]) = Len(commands[p])

C18_Witness ==
  /\ pc[1] = "handleUnique"
  /\ Len(Inserts(1)) = 2
  /\ Inserts(1)[1].err # NoErr /\ Inserts(1)[2].err = NoErr
  /\ Succeeded(1, "release")

\* A layer of the chain exposes one of the two retryable codes.
ExposesRetryableCode(e) ==
  \E k \in 1..Len(e) : e[k].hasState /\ e[k].code \in { "40001", "CR000" }

\* C16: errIsRetryable returns true exactly when the error, or an error it
\* wraps, exposes the SQL state code 40001 or CR000; false for nil, for an
\* error without a code and for any other code.
C16_Classifier ==
  cres # "unset" => (cres = "true" <=> ExposesRetryableCode(cerr))

C16_Witness ==
  /\ cres = "true"
  /\ Len(cerr) = 3
  /\ ~cerr[1].hasState /\ ~cerr[2].hasState
  /\ cerr[3].code = "CR000"

RECURSIVE Sum(_)
Sum(ns) == IF ns = << >> THEN 0 ELSE Head(ns) + Sum(Tail(ns))

Count(em, r) == Cardinality({ k \in 1..Len(em) : em[k] = r })

Stored == { emitted[k] : k \in 1..Len(emitted) }

\* The step is the return of an Emit of caller c with an empty bulk.
EmptyEmit(c) == lpc[c] = "idle" /\ lpc'[c] = "idle" /\ ncall'[c] # ncall[c]

\* The step is one of a Cleanup of caller c.
CleanupStep(c) ==
  /\ lpc'[c] # lpc[c]
  /\ lpc[c] \in { "cleanupLock", "cleanup" } \/ lpc'[c] = "cleanupLock"

LogInv ==
  /\ ~cleaned => \A r \in accepted : Count(emitted, r) = 1
  /\ (~cleaned /\ mux = 0) => /\ LogLen = Sum(Bulks)
                              /\ Stored = accepted

LogStep ==
  \A c \in LogProcs :
    /\ EmptyEmit(c) => emitted' = emitted /\ bulks' = bulks
    /\ CleanupStep(c) => /\ bulks' = bulks
                         /\ Len(emitted') <= Len(emitted)
                         /\ \A r \in Stored : Count(emitted', r) <= Count(emitted, r)
                         /\ \A k \in 1..Len(emitted') : Count(emitted, emitted'[k]) >= 1

\* C19: InmemLogStorage under concurrent callers. Without a Cleanup every
\* record of every non-empty bulk that Emit accepted is stored exactly once
\* and Len() is the sum of Bulks(); an Emit of an empty bulk changes neither
\* the records nor Bulks(); a Cleanup only removes records and leaves Bulks()
\* alone.
C19_LogStorage == [](LogInv) /\ [][LogStep]_vars

C19_Witness ==
  /\ mux = 0 /\ ~cleaned
  /\ \A c \in LogProcs : lpc[c] = "idle"
  /\ Bulks = << 2, 2 >>
  /\ LogLen = 4
  /\ emitted[1].caller = 2 /\ emitted[3].caller = 1
  /\ ncall[1] = 2

====
